---- MODULE Spec2Model ----
(***************************************************************************)
(* REDasm::ListingRenderer (disassembler/listing/listingrenderer.cpp).     *)
(*                                                                         *)
(* The renderer walks a window of the listing document and emits one draw  *)
(* command (x, y, style, text) per text fragment through renderText.  The  *)
(* model keeps the renderer's only persistent field, m_commentcolumn, the  *)
(* collaborators it reads (document, format bits, font unit) and the       *)
(* sequence of draw commands of the last render call.                      *)
(***************************************************************************)
EXTENDS Integers, Sequences, FiniteSets, TLC

VARIABLES
    m_document,       \* [items, segments]: the listing document (line 13)
    bits,             \* m_disassembler->format()->bits()
    fontwidth,        \* what fontUnit() reports, fixed for one behaviour
    fontheight,
    m_commentcolumn,  \* the persisted comment column (line 11)
    sink,             \* draw commands received by renderText in the last call
    rowlog,           \* one record per row of the last call (history)
    lastStart,        \* arguments of the last render call, -1 before any
    lastCount,
    maxInstructionX   \* largest x after mnemonic+operands so far (history)

vars == <<m_document, bits, fontwidth, fontheight, m_commentcolumn, sink,
          rowlog, lastStart, lastCount, maxInstructionX>>

(***************************************************************************)
(* Bounds of the model.                                                    *)
(***************************************************************************)
MaxDocSize == 3      \* lines in a page document
MaxArg == 3          \* start and count range over 0..MaxArg and SizeMax
MaxOperands == 3     \* operands of one instruction
MaxComments == 3     \* comments of one instruction
MaxNameLen == 4      \* longest segment name

(***************************************************************************)
(* Program constants.                                                      *)
(***************************************************************************)
INDENT_WIDTH == 2
INDENT_COMMENT == 10

\* size_t is modelled SizeBits wide: start + count wraps modulo 2^SizeBits.
SizeBits == 8
SizeMod == 2 ^ SizeBits
SizeMax == SizeMod - 1

\* ListingItem kinds (listingdocument.h; values only matter as distinct).
SegmentItem == 1
FunctionItem == 2
InstructionItem == 3

Min(a, b) == IF a < b THEN a ELSE b
Max(a, b) == IF a > b THEN a ELSE b

(***************************************************************************)
(* Strings.                                                                *)
(***************************************************************************)
RECURSIVE Repeat(_, _)
\* std::string(n, c)
Repeat(c, n) ==
    IF n <= 0 THEN ""
    ELSE IF n % 2 = 0 THEN LET half == Repeat(c, n \div 2) IN half \o half
    ELSE c \o Repeat(c, n - 1)

Spaces(n) == Repeat(" ", n)

DecChars == <<"0", "1", "2", "3", "4", "5", "6", "7", "8", "9">>

RECURSIVE to_string(_)
\* std::to_string of a non-negative integer
to_string(n) ==
    IF n < 10 THEN DecChars[n + 1]
    ELSE to_string(n \div 10) \o DecChars[(n % 10) + 1]

HexChars == <<"0", "1", "2", "3", "4", "5", "6", "7",
              "8", "9", "a", "b", "c", "d", "e", "f">>

RECURSIVE HexDigits(_)
HexDigits(n) ==
    IF n < 16 THEN HexChars[n + 1]
    ELSE HexDigits(n \div 16) \o HexChars[(n % 16) + 1]

\* std::setw(width) << std::setfill('0'): pad on the left, never truncate
ZeroPad(s, width) == Repeat("0", width - Len(s)) \o s

\* REDasm::hex(address, bits, false): lower-case hex, zero-padded to bits/4
\* digits, no radix prefix.
hex(address, b) == ZeroPad(HexDigits(address), b \div 4)

\* HEX_ADDRESS(address)
HEX_ADDRESS(address, b) == hex(address, b)

\* measureString: s.size() * w, w being the font unit
measureString(s, w) == Len(s) * w

(***************************************************************************)
(* Collaborators.                                                          *)
(***************************************************************************)
NoSegment == [present |-> FALSE, name |-> "", address |-> 0, endaddress |-> 0]

\* m_document->segment(address): the segment covering address, or null
DocumentSegment(document, address) ==
    LET covering == {sg \in document.segments :
                        sg.address <= address /\ address < sg.endaddress}
    IN IF covering = {} THEN NoSegment ELSE CHOOSE sg \in covering : TRUE

\* item->is(t)
ItemIs(item, t) == item.type = t

\* instruction->is(t), instruction->isInvalid()
InstructionIs(instruction, t) == t \in instruction.type
isInvalid(instruction) == "invalid" \in instruction.type

\* operand.is(t), operand.isNumeric()
OperandIs(operand, t) == operand.type = t
isNumeric(operand) == OperandIs(operand, "immediate") \/ OperandIs(operand, "memory")

(***************************************************************************)
(* Rendering.  A render call threads one record s through the routines:    *)
(*   s.rf            the RendererFormat cursor (x, y, style, text)         *)
(*   s.commentcolumn m_commentcolumn                                       *)
(*   s.sink          draw commands emitted so far                          *)
(*   s.row, s.xend   history: row index, x after mnemonic+operands         *)
(***************************************************************************)

\* renderText(rf): the output sink receives the cursor as it is now.  role
\* and index are history fields naming the emitting routine.
renderText(s, role, index) ==
    [s EXCEPT !.sink = Append(@, [x |-> s.rf.x, y |-> s.rf.y,
                                  style |-> s.rf.style, text |-> s.rf.text,
                                  row |-> s.row, role |-> role,
                                  index |-> index])]

\* Sequencing, as between two C++ statements: s is computed, then F runs on it.
Then(s, F(_)) == CHOOSE result \in {F(t) : t \in {s}} : TRUE

SetStyle(s, style) == [s EXCEPT !.rf.style = style]
SetText(s, text) == [s EXCEPT !.rf.text = text]
Advance(s, dx) == [s EXCEPT !.rf.x = @ + dx]

RECURSIVE renderSegmentLines(_, _, _)
renderSegmentLines(s, lines, k) ==
    IF k > Len(lines) THEN s
    ELSE Then(renderText(SetText(SetStyle(s, "segment_fg"), lines[k]),
                         "segment", k - 1),
              LAMBDA t : renderSegmentLines(t, lines, k + 1))

\* renderSegment: one fragment per line the printer yields, x not advanced
renderSegment(item, s) == renderSegmentLines(s, item.lines, 1)

\* renderIndent(rf, n)
renderIndent(s, n) ==
    LET s1 == SetText(SetStyle(s, ""), Spaces(n * INDENT_WIDTH))
        s2 == renderText(s1, "indent", 0)
    IN Advance(s2, measureString(s1.rf.text, s.rf.fontwidth))

\* renderAddressIndent
renderAddressIndent(document, b, item, s) ==
    LET segment == DocumentSegment(document, item.address)
        count == (b \div 4) + (IF segment.present THEN Len(segment.name) ELSE 0)
        s1 == SetText(SetStyle(s, ""), Spaces(count + INDENT_WIDTH))
        s2 == renderText(s1, "addressindent", 0)
    IN Advance(s2, measureString(s1.rf.text, s.rf.fontwidth))

\* renderFunction
renderFunction(document, b, item, s) ==
    LET w == s.rf.fontwidth
        Pre(t) == IF item.pre # ""
                  THEN Advance(renderText(SetText(t, item.pre), "pre", 0),
                               measureString(item.pre, w))
                  ELSE t
        Sym(t) == renderText(SetText(t, item.sym), "sym", 0)
        Post(t) == IF item.post # ""
                   THEN renderText(SetText(Advance(t, measureString(item.sym, w)),
                                           item.post), "post", 0)
                   ELSE t
    IN Then(Then(Then(SetStyle(renderAddressIndent(document, b, item, s),
                               "function_fg"), Pre), Sym), Post)

\* renderAddress
renderAddress(document, b, item, s) ==
    LET segment == DocumentSegment(document, item.address)
        text == (IF segment.present THEN segment.name ELSE "unk")
                    \o ":" \o HEX_ADDRESS(item.address, b)
        s1 == renderText(SetText(SetStyle(s, "address_fg"), text), "address", 0)
    IN renderIndent(Advance(s1, measureString(text, s.rf.fontwidth)), 1)

\* The style renderMnemonic leaves in rf, given the style it finds there.
MnemonicStyle_CallAfterJump(instruction, style) ==
    IF isInvalid(instruction) THEN "instruction_invalid"
    ELSE IF InstructionIs(instruction, "stop") THEN "instruction_stop"
    ELSE IF InstructionIs(instruction, "nop") THEN "instruction_nop"
    ELSE IF InstructionIs(instruction, "jump")
         THEN IF InstructionIs(instruction, "conditional")
              THEN "instruction_jmp_c" ELSE "instruction_jmp"
    ELSE IF InstructionIs(instruction, "call") THEN "instruction_call"
    ELSE style

MnemonicStyle(instruction, style) ==
    IF isInvalid(instruction) THEN "instruction_invalid"
    ELSE IF InstructionIs(instruction, "stop") THEN "instruction_stop"
    ELSE IF InstructionIs(instruction, "nop") THEN "instruction_nop"
    ELSE IF InstructionIs(instruction, "call") THEN "instruction_call"
    ELSE IF InstructionIs(instruction, "jump")
         THEN IF InstructionIs(instruction, "conditional")
              THEN "instruction_jmp_c" ELSE "instruction_jmp"
    ELSE style

\* renderMnemonic
renderMnemonic(instruction, s) ==
    LET s1 == SetText(SetStyle(s, MnemonicStyle(instruction, s.rf.style)),
                      instruction.mnemonic \o " ")
        s2 == renderText(s1, "mnemonic", 0)
    IN Advance(s2, measureString(s1.rf.text, s.rf.fontwidth))

\* The style the operand callback leaves in rf, given the style it finds.
OperandStyle(operand, style) ==
    IF isNumeric(operand)
    THEN IF OperandIs(operand, "memory") THEN "memory_fg" ELSE "immediate_fg"
    ELSE IF OperandIs(operand, "displacement") THEN "displacement_fg"
    ELSE IF OperandIs(operand, "register") THEN "register_fg"
    ELSE style

\* operand.index > 0: a separator precedes the operand
NeedsSeparator_Always(operand) == operand.index >= 0

NeedsSeparator(operand) == operand.index > 0

\* The callback renderOperands hands to the printer, for one operand.
renderOperand(operand, opsize, opstr, s) ==
    LET w == s.rf.fontwidth
        s0 == SetText(s, "")
        s1 == IF NeedsSeparator(operand)
              THEN SetText(Advance(renderText(SetText(SetStyle(s0, ""), ", "),
                                              "separator", operand.index),
                                   s.rf.fontwidth * 2), "")
              ELSE s0
        s2 == SetStyle(s1, OperandStyle(operand, s1.rf.style))
        s3 == IF opsize # "" THEN SetText(s2, opsize \o " ") ELSE s2
        s4 == SetText(s3, s3.rf.text \o opstr)
        s5 == renderText(s4, "operand", operand.index)
    IN Advance(s5, measureString(s4.rf.text, w))

RECURSIVE renderOperandsFrom(_, _, _)
renderOperandsFrom(operands, k, s) ==
    IF k > Len(operands) THEN s
    ELSE Then(renderOperand(operands[k], operands[k].opsize,
                            operands[k].opstr, s),
              LAMBDA t : renderOperandsFrom(operands, k + 1, t))

\* renderOperands: the printer calls back once per operand, in order
renderOperands(instruction, s) == renderOperandsFrom(instruction.operands, 1, s)

RECURSIVE commentStringFrom(_, _, _)
commentStringFrom(comments, k, ss) ==
    IF k > Len(comments) THEN ss
    ELSE commentStringFrom(comments, k + 1,
             (IF comments[k] # Head(comments) THEN ss \o " | " ELSE ss)
                 \o comments[k])

\* commentString
commentString(instruction) == commentStringFrom(instruction.comments, 1, "# ")

\* renderComments
renderComments(instruction, s) ==
    LET s1 == [s EXCEPT !.rf.x = (s.commentcolumn + INDENT_WIDTH) * s.rf.fontwidth]
    IN renderText(SetText(SetStyle(s1, "comment_fg"), commentString(instruction)),
                  "comment", 0)

\* if(rf->x > m_commentcolumn) m_commentcolumn = rf->x;
UpdateCommentColumn_Assign(commentcolumn, x) == x

UpdateCommentColumn(commentcolumn, x) ==
    IF x > commentcolumn THEN x ELSE commentcolumn

\* renderInstruction
renderInstruction(document, b, item, s) ==
    LET instruction == item.instruction
        Address(t) == renderAddress(document, b, item, t)
        Mnemonic(t) == renderMnemonic(instruction, t)
        Operands(t) == renderOperands(instruction, t)
        Column(t) == [t EXCEPT !.commentcolumn = UpdateCommentColumn(@, t.rf.x),
                               !.xend = t.rf.x]
        Comments(t) == IF instruction.comments = <<>> THEN t
                       ELSE renderComments(instruction, t)
    IN Then(Then(Then(Then(Address(s), Mnemonic), Operands), Column), Comments)

\* The body of the loop of render, for batch row i and document line `line`.
renderRow(document, b, i, line, s) ==
    LET item == document.items[line + 1]
        Cursor(t) == [t EXCEPT !.rf.x = 0, !.rf.y = i * t.rf.fontheight,
                               !.row = i, !.xend = 0]
        Dispatch(t) ==
            IF ItemIs(item, SegmentItem) THEN renderSegment(item, t)
            ELSE IF ItemIs(item, FunctionItem)
                 THEN renderFunction(document, b, item, t)
            ELSE IF ItemIs(item, InstructionItem)
                 THEN renderInstruction(document, b, item, t)
            ELSE renderText(SetText(t, "Unknown Type: " \o to_string(item.type)),
                            "unknown", 0)
        Log(t) == [t EXCEPT !.log = Append(@, [line |-> line, type |-> item.type,
                                                before |-> s.commentcolumn,
                                                after |-> t.commentcolumn,
                                                xend |-> t.xend])]
    IN Then(Then(Cursor(s), Dispatch), Log)

RECURSIVE renderLoop(_, _, _, _, _, _)
renderLoop(document, b, i, line, limit, s) ==
    IF line < limit
    THEN Then(renderRow(document, b, i, line, s),
              LAMBDA t : renderLoop(document, b, i + 1, line + 1, limit, t))
    ELSE s

\* size_t end = start + count
EndOf(start, count) == (start + count) % SizeMod

\* render(start, count): the state the call ends in
render(document, b, w, h, commentcolumn, start, count) ==
    LET end == EndOf(start, count)
        rf == [x |-> 0, y |-> 0, fontwidth |-> w, fontheight |-> h,
               style |-> "", text |-> ""]
        s0 == [rf |-> rf, commentcolumn |-> commentcolumn, sink |-> <<>>,
               row |-> 0, xend |-> 0, log |-> <<>>]
    IN renderLoop(document, b, 0, start, Min(Len(document.items), end), s0)

RECURSIVE SeqMax(_, _)
SeqMax(log, k) == IF k > Len(log) THEN 0 ELSE Max(log[k].xend, SeqMax(log, k + 1))

(***************************************************************************)
(* The state machine.                                                      *)
(***************************************************************************)
Render(start, count) ==
    \E s \in {render(m_document, bits, fontwidth, fontheight, m_commentcolumn,
                    start, count)} :
       /\ m_commentcolumn' = s.commentcolumn
       /\ sink' = s.sink
       /\ rowlog' = s.log
       /\ lastStart' = start
       /\ lastCount' = count
       /\ maxInstructionX' = Max(maxInstructionX, SeqMax(s.log, 1))
       /\ UNCHANGED <<m_document, bits, fontwidth, fontheight>>

\* Arguments of render: small values and the largest size_t, whose sum with
\* any start > 0 wraps.
Args == (0 .. MaxArg) \cup {SizeMax}

Next == \E start \in Args, count \in Args : Render(start, count)

(***************************************************************************)
(* Documents the renderer is run on.                                       *)
(***************************************************************************)
NoInstruction == [mnemonic |-> "", type |-> {}, operands |-> <<>>, comments |-> <<>>]

Item(type, address) ==
    [type |-> type, address |-> address, lines |-> <<>>,
     pre |-> "", sym |-> "", post |-> "", instruction |-> NoInstruction]

SegmentRow(address, lines) == [Item(SegmentItem, address) EXCEPT !.lines = lines]

FunctionRow(address, pre, sym, post) ==
    [Item(FunctionItem, address) EXCEPT !.pre = pre, !.sym = sym, !.post = post]

InstructionRow(address, instruction) ==
    [Item(InstructionItem, address) EXCEPT !.instruction = instruction]

\* What the printer yields for an operand of each kind.
OperandKinds == {"register", "immediate", "memory", "displacement", "none"}

Operand(index, kind) ==
    [index |-> index, type |-> kind,
     opsize |-> IF kind = "memory" THEN "dword" ELSE "",
     opstr |-> CASE kind = "register" -> "eax"
                 [] kind = "immediate" -> "0x5"
                 [] kind = "memory" -> "[0x10]"
                 [] kind = "displacement" -> "[ebx+4]"
                 [] OTHER -> "?"]

\* Operand lists with indices 0..n-1 in index order.
OperandLists(maxlen) ==
    UNION {{[j \in 1 .. n |-> Operand(j - 1, kinds[j])] :
               kinds \in [1 .. n -> OperandKinds]} : n \in 0 .. maxlen}

InstructionFlags == {"invalid", "stop", "nop", "call", "jump", "conditional"}

CommentStrings == {"a", "bc"}

CommentLists(maxlen) == UNION {[1 .. n -> CommentStrings] : n \in 0 .. maxlen}

TextSegment == [present |-> TRUE, name |-> "text", address |-> 0, endaddress |-> 16]

\* The items pages are made of.
PageItems ==
    { SegmentRow(0, <<"segment text">>),
      FunctionRow(0, "", "main", ""),
      InstructionRow(0, [mnemonic |-> "nop", type |-> {"nop"},
                         operands |-> <<>>, comments |-> <<"a">>]),
      InstructionRow(1, [mnemonic |-> "mov", type |-> {},
                         operands |-> <<Operand(0, "register"),
                                        Operand(1, "immediate")>>,
                         comments |-> <<"a", "bc">>]),
      Item(99, 3) }

Pages == UNION {[1 .. n -> PageItems] : n \in 0 .. MaxDocSize}

FontWidths == {1, 2}
FontHeights == {3}
AddressBits == {8, 16, 32, 64}

\* The renderer as constructed (lines 11-15), no render call made yet.
Constructed ==
    /\ m_commentcolumn = 0
    /\ sink = <<>>
    /\ rowlog = <<>>
    /\ lastStart = -1
    /\ lastCount = -1
    /\ maxInstructionX = 0

\* Pages of mixed rows inside one segment.
Init ==
    /\ m_document \in [items : Pages, segments : {{TextSegment}}]
    /\ bits = 32
    /\ fontwidth \in FontWidths
    /\ fontheight \in FontHeights
    /\ Constructed

\* Single instruction rows: every flag combination with at most one operand
\* of every kind, every operand list, every comment list.
RowInstructions ==
    {[mnemonic |-> "jmp", type |-> flags, operands |-> operands, comments |-> <<>>] :
        flags \in SUBSET InstructionFlags, operands \in OperandLists(1)}
    \cup
    {[mnemonic |-> "mov", type |-> {}, operands |-> operands, comments |-> <<>>] :
        operands \in OperandLists(MaxOperands)}
    \cup
    {[mnemonic |-> "ret", type |-> {"stop"}, operands |-> <<>>, comments |-> comments] :
        comments \in CommentLists(MaxComments)}

InitRow ==
    /\ \E instruction \in RowInstructions :
           m_document = [items |-> <<InstructionRow(1, instruction)>>,
                         segments |-> {TextSegment}]
    /\ bits = 32
    /\ fontwidth \in FontWidths
    /\ fontheight \in FontHeights
    /\ Constructed

RECURSIVE SegmentName(_)
SegmentName(n) == IF n = 0 THEN "" ELSE SegmentName(n - 1) \o "s"

\* A function and its first instruction, inside a segment whose name has any
\* length or outside every segment, for every address width.
InitAlign ==
    /\ \E segments \in {{}} \cup
               {{[present |-> TRUE, name |-> SegmentName(n),
                  address |-> 0, endaddress |-> 16]} : n \in 0 .. MaxNameLen},
          pre \in {"", "sub "} :
           m_document =
               [items |-> <<FunctionRow(10, pre, "main", "()"),
                            InstructionRow(10, [mnemonic |-> "push", type |-> {},
                                                operands |-> <<Operand(0, "register")>>,
                                                comments |-> <<>>])>>,
                segments |-> segments]
    /\ bits \in AddressBits
    /\ fontwidth \in FontWidths
    /\ fontheight \in FontHeights
    /\ Constructed

Spec == Init /\ [][Next]_vars

SpecRow == InitRow /\ [][Next]_vars

SpecAlign == InitAlign /\ [][Next]_vars

(***************************************************************************)
(* Reading the output of the last call.                                    *)
(***************************************************************************)
\* The draw commands of batch row i, in emission order.
RowFragments(i) == SelectSeq(sink, LAMBDA f : f.row = i)

\* The listing item rendered as the k-th row of the last call.
RowItem(k) == m_document.items[rowlog[k].line + 1]

InstructionRows == {k \in 1 .. Len(rowlog) : rowlog[k].type = InstructionItem}
FunctionRows == {k \in 1 .. Len(rowlog) : rowlog[k].type = FunctionItem}
UnknownRows == {k \in 1 .. Len(rowlog) :
                   rowlog[k].type \notin {SegmentItem, FunctionItem, InstructionItem}}

CommentFragments == {n \in 1 .. Len(sink) : sink[n].role = "comment"}

Monus(a, b) == IF a > b THEN a - b ELSE 0

(***************************************************************************)
(* C1: the comment column never decreases, from one call to the next and   *)
(* from one row to the next; it is at least the x reached after            *)
(* mnemonic+operands by every instruction row rendered so far; segment,    *)
(* function and unknown rows leave it unchanged.                           *)
(***************************************************************************)
C1_RowsKeepColumn ==
    \A k \in 1 .. Len(rowlog) :
        /\ rowlog[k].after >= rowlog[k].before
        /\ rowlog[k].type = InstructionItem => rowlog[k].after >= rowlog[k].xend
        /\ rowlog[k].type # InstructionItem => rowlog[k].after = rowlog[k].before
        /\ m_commentcolumn >= rowlog[k].after

C1_CommentColumnMonotone ==
    /\ [](m_commentcolumn >= maxInstructionX /\ C1_RowsKeepColumn)
    /\ [][m_commentcolumn' >= m_commentcolumn]_vars

\* A narrower instruction row rendered after the column was pushed right,
\* in a window that also holds a row of another kind.
C1_Witness ==
    /\ \E k \in InstructionRows :
           /\ rowlog[k].xend < rowlog[k].before
           /\ rowlog[k].after = rowlog[k].before
    /\ \E k \in InstructionRows : rowlog[k].after > rowlog[k].before
    /\ \E k \in 1 .. Len(rowlog) : rowlog[k].type # InstructionItem

(***************************************************************************)
(* C2: render(start, count) renders min(count, documentSize - start) rows  *)
(* (none when start is beyond the end), never more than count, and passes  *)
(* no line >= documentSize to itemAt, also when start + count wraps.       *)
(***************************************************************************)
C2_RowsRendered ==
    lastStart >= 0 =>
        /\ Len(rowlog) = Min(lastCount, Monus(Len(m_document.items), lastStart))
        /\ Len(rowlog) <= lastCount
        /\ \A k \in 1 .. Len(rowlog) : rowlog[k].line < Len(m_document.items)

(***************************************************************************)
(* C3: within one render call every comment fragment has the same x.       *)
(***************************************************************************)
C3_CommentsShareColumn ==
    \A n, m \in CommentFragments : sink[n].x = sink[m].x

(***************************************************************************)
(* C4: a function row's label (pre, or sym when pre is empty) starts at    *)
(* the x where the mnemonic of an instruction row at the same address      *)
(* starts.                                                                 *)
(***************************************************************************)
C4_LabelAlignsWithMnemonic ==
    \A f \in FunctionRows : \A k \in InstructionRows :
        RowItem(f).address = RowItem(k).address =>
            RowFragments(f - 1)[2].x = RowFragments(k - 1)[3].x

(***************************************************************************)
(* C5: an operand fragment's style depends on the operand's kind alone:    *)
(* memory_fg, immediate_fg, displacement_fg, register_fg, or the empty     *)
(* style for any other kind.                                               *)
(***************************************************************************)
KindStyle(kind) ==
    CASE kind = "memory" -> "memory_fg"
      [] kind = "immediate" -> "immediate_fg"
      [] kind = "displacement" -> "displacement_fg"
      [] kind = "register" -> "register_fg"
      [] OTHER -> ""

C5_OperandStyleByKind ==
    \A n \in 1 .. Len(sink) :
        sink[n].role = "operand" =>
            sink[n].style =
                KindStyle(RowItem(sink[n].row + 1).instruction
                              .operands[sink[n].index + 1].type)

(***************************************************************************)
(* C6: a row of an unrecognised kind emits exactly one fragment, "Unknown  *)
(* Type: <kind>", at x = 0, y = i * fontheight, with the empty style,      *)
(* whatever was rendered before it in the call.                            *)
(***************************************************************************)
C6_UnknownRowFragment ==
    \A k \in UnknownRows :
        LET frags == RowFragments(k - 1)
        IN /\ Len(frags) = 1
           /\ frags[1].text = "Unknown Type: " \o to_string(rowlog[k].type)
           /\ frags[1].x = 0
           /\ frags[1].y = (k - 1) * fontheight
           /\ frags[1].style = ""

(***************************************************************************)
(* C7: the comment text is "# " followed by the comments in order, with    *)
(* " | " between every two consecutive comments.                           *)
(***************************************************************************)
RECURSIVE JoinWith(_, _)
JoinWith(strings, separator) ==
    IF strings = <<>> THEN ""
    ELSE IF Len(strings) = 1 THEN strings[1]
    ELSE strings[1] \o separator \o JoinWith(Tail(strings), separator)

C7_CommentJoin ==
    \A n \in CommentFragments :
        sink[n].text =
            "# " \o JoinWith(RowItem(sink[n].row + 1).instruction.comments, " | ")

(***************************************************************************)
(* C8: an instruction row with operands 0..n-1 has exactly n-1 ", "        *)
(* fragments, one right before each operand of index > 0 and none before   *)
(* operand 0; a separator has the empty style and advances x by            *)
(* 2 * fontwidth; every operand starts where the fragment before it ended. *)
(***************************************************************************)
\* The fragments after address, indent and mnemonic, trailing comment dropped.
OperandPart(k) ==
    LET frags == RowFragments(k - 1)
        last == IF RowItem(k).instruction.comments = <<>>
                THEN Len(frags) ELSE Len(frags) - 1
    IN SubSeq(frags, 3, last)

C8_Separators ==
    \A k \in InstructionRows :
        LET operands == RowItem(k).instruction.operands
            n == Len(operands)
            part == OperandPart(k)    \* part[1] is the mnemonic
        IN /\ Len(part) = 1 + (IF n = 0 THEN 0 ELSE 2 * n - 1)
           /\ \A j \in 1 .. n :
                  LET pos == 2 * j    \* operand j-1 sits at part[2j]
                  IN /\ part[pos].text =
                            (IF operands[j].opsize # ""
                             THEN operands[j].opsize \o " " ELSE "")
                                \o operands[j].opstr
                     /\ part[pos].x = part[pos - 1].x
                                        + Len(part[pos - 1].text) * fontwidth
                     /\ j > 1 =>
                            /\ part[pos - 1].text = ", "
                            /\ part[pos - 1].style = ""
                            /\ part[pos - 1].x = part[pos - 2].x
                                        + Len(part[pos - 2].text) * fontwidth
                            /\ part[pos].x = part[pos - 1].x + 2 * fontwidth

\* A row with three operands was rendered, two separators in it.
C8_Witness ==
    \E k \in InstructionRows :
        /\ Len(RowItem(k).instruction.operands) = 3
        /\ Cardinality({n \in 1 .. Len(sink) :
                           sink[n].row = k - 1 /\ sink[n].text = ", "}) = 2

(***************************************************************************)
(* C9: the mnemonic's style is that of the first flag set, in the order    *)
(* invalid, stop, nop, call, jump-conditional, jump; none set gives the    *)
(* empty style.                                                            *)
(***************************************************************************)
StylePriority ==
    << [needs |-> {"invalid"}, style |-> "instruction_invalid"],
       [needs |-> {"stop"}, style |-> "instruction_stop"],
       [needs |-> {"nop"}, style |-> "instruction_nop"],
       [needs |-> {"call"}, style |-> "instruction_call"],
       [needs |-> {"jump", "conditional"}, style |-> "instruction_jmp_c"],
       [needs |-> {"jump"}, style |-> "instruction_jmp"] >>

FirstMatchingStyle(flags) ==
    LET matching == {p \in 1 .. Len(StylePriority) :
                        StylePriority[p].needs \subseteq flags}
    IN IF matching = {} THEN ""
       ELSE StylePriority[CHOOSE p \in matching :
                              \A q \in matching : p <= q].style

C9_MnemonicStyle ==
    \A k \in InstructionRows :
        LET mnemonic == RowFragments(k - 1)[3]
        IN /\ mnemonic.text = RowItem(k).instruction.mnemonic \o " "
           /\ mnemonic.style = FirstMatchingStyle(RowItem(k).instruction.type)

\* An instruction that is both call and jump was rendered, styled as call.
C9_Witness ==
    \E k \in InstructionRows :
        /\ {"call", "jump"} \subseteq RowItem(k).instruction.type
        /\ RowItem(k).instruction.type \cap {"invalid", "stop", "nop"} = {}
        /\ RowFragments(k - 1)[3].style = "instruction_call"

(***************************************************************************)
(* C10: a render of the window the previous call rendered emits the same   *)
(* draw commands as that call and leaves the comment column unchanged.     *)
(***************************************************************************)
C10_RenderFixpoint ==
    [][(lastStart >= 0 /\ lastStart' = lastStart /\ lastCount' = lastCount)
           => (sink' = sink /\ m_commentcolumn' = m_commentcolumn)]_vars

====
